---- MODULE Spec2Model ----
(***************************************************************************)
(* Weather dashboard (streamlit_app.py): the feed reader, the weather      *)
(* client, the symbol resolver and the page that renders them.             *)
(*                                                                         *)
(* Python objects are records tagged by their type (field t).  A str is a  *)
(* sequence of fragments, so that an f-string is the concatenation of its  *)
(* literal parts and its interpolated values.  Glyphs are written as their *)
(* code points.  The upstream services (the two feeds and the measurement  *)
(* API) are the variable upstream: one behaviour runs against one fixed    *)
(* set of upstream responses.                                              *)
(***************************************************************************)
EXTENDS Integers, Sequences, FiniteSets, TLC

VARIABLES
    weather_symbol_map,  \* module-level table, lines 11-45
    settings,            \* module-level constants and secrets, lines 7-8, 48-53
    upstream,            \* what each upstream endpoint answers
    call,                \* the function called last and its argument
    ret,                 \* what that call returned
    exc,                 \* the exception that escaped that call, "none" if none
    requests_log,        \* the requests that call issued, in order
    fields,              \* the fields that call rendered (st.markdown / st.write)
    days,                \* the forecast days that call rendered
    repeated,            \* the call before it was the same call
    agree                \* ... and returned the same value

vars == <<weather_symbol_map, settings, upstream, call, ret, exc,
          requests_log, fields, days, repeated, agree>>

-----------------------------------------------------------------------------
(* Bounds of the model *)

MaxItems == 2

MaxDays == 2

MaxCode == 117

-----------------------------------------------------------------------------
(* Python values *)

PyInt(n) == [t |-> "int", n |-> n, s |-> <<>>]

\* a finite float, kept in tenths: PyFloat(725) is 72.5
PyFloat(tenths) == [t |-> "float", n |-> tenths, s |-> <<>>]

PyInf == [t |-> "float_inf", n |-> 0, s |-> <<>>]

PyStr(frags) == [t |-> "str", n |-> 0, s |-> frags]

PyNone == [t |-> "None", n |-> 0, s |-> <<>>]

PyDict(d) == [t |-> "dict", d |-> d]

PyList(l) == [t |-> "list", l |-> l]

NoExc == "none"

\* the classes the handlers' `except Exception` covers
ExceptionClasses ==
    {"ConnectionError", "HTTPError", "JSONDecodeError", "KeyError", "IndexError",
     "TypeError", "ValueError", "OverflowError", "ParseError"}

\* decimal literals int(str) accepts, with their values
DecimalLiterals == ("1" :> 1) @@ ("5" :> 5) @@ ("105" :> 105)

\* int(x): the integer or the exception it raises
PyIntConv(x) ==
    CASE x.t = "int" -> [exc |-> NoExc, n |-> x.n]
      [] x.t = "float" ->
            [exc |-> NoExc,
             n |-> IF x.n >= 0 THEN x.n \div 10 ELSE 0 - ((0 - x.n) \div 10)]
      [] x.t = "float_inf" -> [exc |-> "OverflowError", n |-> 0]
      [] x.t = "str" ->
            IF Len(x.s) = 1 /\ x.s[1] \in DOMAIN DecimalLiterals
            THEN [exc |-> NoExc, n |-> DecimalLiterals[x.s[1]]]
            ELSE [exc |-> "ValueError", n |-> 0]
      [] OTHER -> [exc |-> "TypeError", n |-> 0]

-----------------------------------------------------------------------------
(* Module-level data *)

SymbolTable ==
       0 :> [description |-> "A weather symbol could not be determined", icon |-> "U+2753"]
    @@ 1 :> [description |-> "Clear sky", icon |-> "U+2600 U+FE0F"]
    @@ 101 :> [description |-> "Clear sky (night)", icon |-> "U+1F315"]
    @@ 2 :> [description |-> "Light clouds", icon |-> "U+1F324"]
    @@ 102 :> [description |-> "Light clouds (night)", icon |-> "U+1F325"]
    @@ 3 :> [description |-> "Partly cloudy", icon |-> "U+26C5"]
    @@ 103 :> [description |-> "Partly cloudy (night)", icon |-> "U+2601 U+FE0F"]
    @@ 4 :> [description |-> "Cloudy", icon |-> "U+2601 U+FE0F"]
    @@ 104 :> [description |-> "Cloudy (night)", icon |-> "U+2601 U+FE0F"]
    @@ 5 :> [description |-> "Rain", icon |-> "U+1F327"]
    @@ 105 :> [description |-> "Rain (night)", icon |-> "U+1F327"]
    @@ 6 :> [description |-> "Rain and snow / sleet", icon |-> "U+1F328"]
    @@ 106 :> [description |-> "Rain and snow / sleet (night)", icon |-> "U+1F328"]
    @@ 7 :> [description |-> "Snow", icon |-> "U+2744 U+FE0F"]
    @@ 107 :> [description |-> "Snow (night)", icon |-> "U+2744 U+FE0F"]
    @@ 8 :> [description |-> "Rain shower", icon |-> "U+1F326"]
    @@ 108 :> [description |-> "Rain shower (night)", icon |-> "U+1F326"]
    @@ 9 :> [description |-> "Snow shower", icon |-> "U+1F328"]
    @@ 109 :> [description |-> "Snow shower (night)", icon |-> "U+1F328"]
    @@ 10 :> [description |-> "Sleet shower", icon |-> "U+1F328"]
    @@ 110 :> [description |-> "Sleet shower (night)", icon |-> "U+1F328"]
    @@ 11 :> [description |-> "Light fog", icon |-> "U+1F32B U+FE0F"]
    @@ 111 :> [description |-> "Light fog (night)", icon |-> "U+1F32B U+FE0F"]
    @@ 12 :> [description |-> "Dense fog", icon |-> "U+1F32B U+FE0F"]
    @@ 112 :> [description |-> "Dense fog (night)", icon |-> "U+1F32B U+FE0F"]
    @@ 13 :> [description |-> "Freezing rain", icon |-> "U+1F327 U+2744 U+FE0F"]
    @@ 113 :> [description |-> "Freezing rain (night)", icon |-> "U+1F327 U+2744 U+FE0F"]
    @@ 14 :> [description |-> "Thunderstorms", icon |-> "U+26C8"]
    @@ 114 :> [description |-> "Thunderstorms (night)", icon |-> "U+26C8"]
    @@ 15 :> [description |-> "Drizzle", icon |-> "U+1F327"]
    @@ 115 :> [description |-> "Drizzle (night)", icon |-> "U+1F327"]
    @@ 16 :> [description |-> "Sandstorm", icon |-> "U+1F32A U+FE0F"]
    @@ 116 :> [description |-> "Sandstorm (night)", icon |-> "U+1F32A U+FE0F"]

UnknownSymbol == [description |-> "Unknown symbol", icon |-> "U+2753"]

RSS_FEED_NHC == "https://www.nhc.noaa.gov/nhc_at1.xml"

RSS_FEED_SPC == "https://www.spc.noaa.gov/products/spcwwrss.xml"

Settings ==
    [username |-> "st.secrets[USERNAME]", password |-> "st.secrets[PASSWORD]",
     LATITUDE |-> "33.4473", LONGITUDE |-> "-84.1469",
     RSS_FEED_NHC |-> RSS_FEED_NHC, RSS_FEED_SPC |-> RSS_FEED_SPC]

-----------------------------------------------------------------------------
(* Upstream responses *)

SeqsUpTo(S, n) == UNION {[1..k -> S] : k \in 0..n}

\* response.raise_for_status() raises HTTPError for 4xx and 5xx
RaiseForStatus(status) == status >= 400 /\ status < 600

\* an item of the feed: its description child if any, and that child's text
\* (None for an empty element)
FeedItems ==
    {[has_description |-> FALSE, text |-> PyNone],
     [has_description |-> TRUE, text |-> PyNone],
     [has_description |-> TRUE, text |-> PyStr(<<"Tropical storm forming">>)],
     [has_description |-> TRUE, text |-> PyStr(<<"Watch issued">>)]}

FeedRaises == [raises |-> TRUE, status |-> 0, wellformed |-> FALSE, items |-> <<>>]

FeedOutcomes ==
    {FeedRaises}
    \cup {[raises |-> FALSE, status |-> st, wellformed |-> FALSE, items |-> <<>>] :
            st \in {200, 404}}
    \cup {[raises |-> FALSE, status |-> st, wellformed |-> TRUE, items |-> it] :
            st \in {200, 404}, it \in SeqsUpTo(FeedItems, MaxItems)}

NominalFeed ==
    [raises |-> FALSE, status |-> 200, wellformed |-> TRUE,
     items |-> <<[has_description |-> TRUE, text |-> PyStr(<<"Watch issued">>)]>>]

CurrentParams == {"temperature", "weather_symbol", "heavy_rain_warning", "air_quality"}

ForecastParams == {"temperature", "weather_symbol"}

\* what one request of the measurement API meets: requests.get raising, or a
\* response with a status and a body that is JSON or not, of the expected
\* nesting or not, holding a payload (a value, or a list of dated samples)
ApiRaises(empty) ==
    [raises |-> TRUE, status |-> 0, json_ok |-> FALSE, has_keys |-> FALSE,
     payload |-> empty]

ApiOk(payload) ==
    [raises |-> FALSE, status |-> 200, json_ok |-> TRUE, has_keys |-> TRUE,
     payload |-> payload]

ApiOutcomes(payloads, empty) ==
    {ApiRaises(empty)}
    \cup {[raises |-> FALSE, status |-> st, json_ok |-> j, has_keys |-> FALSE,
           payload |-> empty] : st \in {200, 500}, j \in BOOLEAN}
    \cup {[raises |-> FALSE, status |-> st, json_ok |-> TRUE, has_keys |-> TRUE,
           payload |-> p] : st \in {200, 500}, p \in payloads}

CurrentValues(param) ==
    CASE param = "temperature" -> {PyFloat(725)}
      [] param = "weather_symbol" ->
            {PyInt(1), PyFloat(1057), PyStr(<<"5">>), PyStr(<<"n/a">>), PyNone, PyInf}
      [] param = "heavy_rain_warning" -> {PyInt(0)}
      [] param = "air_quality" -> {PyFloat(123)}

TemperatureSamples ==
    {[date |-> "d1", value |-> PyInt(70)], [date |-> "d2", value |-> PyInt(75)]}

SymbolSamples ==
    {[date |-> "d1", value |-> v] :
        v \in {PyInt(1), PyStr(<<"5">>), PyStr(<<"n/a">>), PyNone}}

ForecastSamples(param) ==
    IF param = "temperature" THEN TemperatureSamples ELSE SymbolSamples

NominalCurrent ==
    ("temperature" :> ApiOk(PyFloat(725))) @@ ("weather_symbol" :> ApiOk(PyInt(1)))
    @@ ("heavy_rain_warning" :> ApiOk(PyInt(0))) @@ ("air_quality" :> ApiOk(PyFloat(123)))

NominalForecast ==
    ("temperature" :>
        ApiOk(<<[date |-> "d1", value |-> PyInt(70)], [date |-> "d2", value |-> PyInt(75)]>>))
    @@ ("weather_symbol" :>
        ApiOk(<<[date |-> "d1", value |-> PyInt(1)], [date |-> "d1", value |-> PyStr(<<"5">>)]>>))

NominalFeeds == (RSS_FEED_NHC :> NominalFeed) @@ (RSS_FEED_SPC :> NominalFeed)

Typical(ok) == {ok, ApiRaises(ok.payload), [ok EXCEPT !.status = 500]}

CurrentOutcomes(p) == ApiOutcomes(CurrentValues(p), PyNone)

ForecastOutcomes(p) == ApiOutcomes(SeqsUpTo(ForecastSamples(p), MaxDays), <<>>)

\* every combination of typical outcomes of the four requests, and every
\* outcome of any two of them
CurrentUpstreams ==
    {[p \in CurrentParams |-> t[p]] :
        t \in {t \in [CurrentParams -> UNION {Typical(NominalCurrent[p]) : p \in CurrentParams}] :
                 \A p \in CurrentParams : t[p] \in Typical(NominalCurrent[p])}}
    \cup UNION {{[NominalCurrent EXCEPT ![p] = a, ![q] = b] :
                    a \in CurrentOutcomes(p), b \in CurrentOutcomes(q)} :
                p \in CurrentParams, q \in CurrentParams}

\* every pair of series, and every outcome of one request with a typical
\* outcome of the other
ForecastUpstreams ==
    {("temperature" :> ApiOk(a)) @@ ("weather_symbol" :> ApiOk(b)) :
        a \in SeqsUpTo(TemperatureSamples, MaxDays),
        b \in SeqsUpTo(SymbolSamples, MaxDays)}
    \cup UNION {{[NominalForecast EXCEPT ![p] = a, ![q] = b] :
                    a \in ForecastOutcomes(p), b \in Typical(NominalForecast[q])} :
                p \in ForecastParams, q \in ForecastParams}

\* the upstreams explored: one service answers anything, the other two as expected
Upstreams ==
    {[feed |-> (u :> o) @@ NominalFeeds, current |-> NominalCurrent,
      forecast |-> NominalForecast] :
        u \in {RSS_FEED_NHC, RSS_FEED_SPC}, o \in FeedOutcomes}
    \cup {[feed |-> NominalFeeds, current |-> c, forecast |-> NominalForecast] :
            c \in CurrentUpstreams}
    \cup {[feed |-> NominalFeeds, current |-> NominalCurrent, forecast |-> f] :
            f \in ForecastUpstreams}

-----------------------------------------------------------------------------
(* Exceptions: the class raised and the source line that raised it *)

NoExcAt == [type |-> NoExc, line |-> 0]

Raised(type, line) == [type |-> type, line |-> line]

-----------------------------------------------------------------------------
(* Feed reader, lines 56-68 *)

\* the loop of lines 62-66 over root.findall(".//item"), from item i on
RECURSIVE FirstDescription(_, _)
FirstDescription_noskip(items, i) ==
    IF i > Len(items) \/ ~items[i].has_description
    THEN PyStr(<<"No description available.">>)
    ELSE items[i].text

FirstDescription(items, i) ==
    IF i > Len(items) THEN PyStr(<<"No description available.">>)
    ELSE IF items[i].has_description THEN items[i].text
    ELSE FirstDescription(items, i + 1)

\* the handler of line 67
FeedCatches_requests_only(e) == e \in {"ConnectionError", "HTTPError"}

FeedCatches(e) == e \in ExceptionClasses

fetch_first_description_from_rss(url) ==
    LET o == upstream.feed[url]
        e == IF o.raises THEN Raised("ConnectionError", 58)
             ELSE IF ~o.wellformed THEN Raised("ParseError", 59)
             ELSE NoExcAt
    IN  IF e = NoExcAt
        THEN [ret |-> FirstDescription(o.items, 1), exc |-> NoExcAt, log |-> <<url>>]
        ELSE IF FeedCatches(e.type)
        THEN [ret |-> PyStr(<<"Error fetching data: ", e.type>>), exc |-> NoExcAt,
              log |-> <<url>>]
        ELSE [ret |-> PyNone, exc |-> e, log |-> <<url>>]

-----------------------------------------------------------------------------
(* Weather client, lines 71-92 and 99-124 *)

\* params.items() iterates in insertion order
ParamOrder == <<"temperature", "weather_symbol", "heavy_rain_warning", "air_quality">>

ForecastOrder == <<"temperature", "weather_symbol">>

\* one request and the extraction of its payload, lines 83-86 and 115-118;
\* first is the line of requests.get
ApiRequest(o, first) ==
    IF o.raises THEN [exc |-> Raised("ConnectionError", first), payload |-> o.payload]
    ELSE IF RaiseForStatus(o.status)
    THEN [exc |-> Raised("HTTPError", first + 1), payload |-> o.payload]
    ELSE IF ~o.json_ok
    THEN [exc |-> Raised("JSONDecodeError", first + 2), payload |-> o.payload]
    ELSE IF ~o.has_keys
    THEN [exc |-> Raised("KeyError", first + 3), payload |-> o.payload]
    ELSE [exc |-> NoExcAt, payload |-> o.payload]

ErrorText(param, e) == PyStr(<<"Error fetching ", param, ": ", e>>)

EmptyDict == [k \in {} |-> PyNone]

\* weather_data = {} of line 79
FreshWeatherData == EmptyDict

\* the handlers of lines 87-90
WeatherCatches_http_only(e) == e = "HTTPError"

WeatherCatches(e) == e = "HTTPError" \/ e \in ExceptionClasses

RECURSIVE WeatherLoop(_, _, _)
WeatherLoop(i, weather_data, log) ==
    IF i > Len(ParamOrder)
    THEN [ret |-> PyDict(weather_data), exc |-> NoExcAt, log |-> log]
    ELSE LET param == ParamOrder[i]
             r == ApiRequest(upstream.current[param], 83)
             sent == Append(log, param)
         IN  IF r.exc = NoExcAt
             THEN WeatherLoop(i + 1, (param :> r.payload) @@ weather_data, sent)
             ELSE IF WeatherCatches(r.exc.type)
             THEN WeatherLoop(i + 1,
                              (param :> ErrorText(param, r.exc.type)) @@ weather_data,
                              sent)
             ELSE [ret |-> PyNone, exc |-> r.exc, log |-> sent]

fetch_weather_data == WeatherLoop(1, FreshWeatherData, <<>>)

\* forecast_data = [] of line 100
FreshForecastData_kept ==
    IF call.fn = "fetch_5_day_forecast" /\ ret.t = "list" THEN ret.l ELSE <<>>

FreshForecastData == <<>>

\* the handlers of lines 119-122
ForecastCatches(e) == e = "HTTPError" \/ e \in ExceptionClasses

\* what the handlers return, lines 120 and 122
ForecastFailure_partial(param, e, forecast_data) == PyList(forecast_data)

ForecastFailure(param, e, forecast_data) == ErrorText(param, e)

RECURSIVE ForecastLoop(_, _, _)
ForecastLoop(i, forecast_data, log) ==
    IF i > Len(ForecastOrder)
    THEN [ret |-> PyList(forecast_data), exc |-> NoExcAt, log |-> log]
    ELSE LET param == ForecastOrder[i]
             r == ApiRequest(upstream.forecast[param], 115)
             sent == Append(log, param)
         IN  IF r.exc = NoExcAt
             THEN ForecastLoop(i + 1, Append(forecast_data, r.payload), sent)
             ELSE IF ForecastCatches(r.exc.type)
             THEN [ret |-> ForecastFailure(param, r.exc.type, forecast_data),
                   exc |-> NoExcAt, log |-> sent]
             ELSE [ret |-> PyNone, exc |-> r.exc, log |-> sent]

fetch_5_day_forecast == ForecastLoop(1, FreshForecastData, <<>>)

-----------------------------------------------------------------------------
(* Symbol resolver, lines 95-96 *)

get_weather_symbol_description_zero(symbol_id) ==
    IF symbol_id \in DOMAIN weather_symbol_map
    THEN weather_symbol_map[symbol_id]
    ELSE weather_symbol_map[0]

get_weather_symbol_description(symbol_id) ==
    IF symbol_id \in DOMAIN weather_symbol_map
    THEN weather_symbol_map[symbol_id]
    ELSE UnknownSymbol

-----------------------------------------------------------------------------
(* Forecast display, lines 127-144 *)

\* list.index(x): the first position holding an element equal to x
IndexOf(seq, x) ==
    CHOOSE i \in 1..Len(seq) : seq[i] = x /\ \A j \in 1..(i - 1) : seq[j] # x

ForecastDay(day, symbol_id) ==
    LET symbol == get_weather_symbol_description(symbol_id)
    IN  [date |-> day.date, temperature |-> day.value, symbol_id |-> symbol_id,
         description |-> symbol.description, icon |-> symbol.icon]

\* the loop of lines 134-144 from the k-th temperature entry on; out is what
\* has been written so far
RECURSIVE DisplayLoop(_, _, _)
DisplayLoop(forecast_data, k, out) ==
    IF k > Len(forecast_data[1]) THEN [days |-> out, exc |-> NoExcAt]
    ELSE IF Len(forecast_data) < 2 THEN [days |-> out, exc |-> Raised("IndexError", 137)]
    ELSE LET day == forecast_data[1][k]
             idx == IndexOf(forecast_data[1], day)
         IN  IF idx > Len(forecast_data[2])
             THEN [days |-> out, exc |-> Raised("IndexError", 137)]
             ELSE LET conv == PyIntConv(forecast_data[2][idx].value)
                  IN  IF conv.exc # NoExc
                      THEN [days |-> out, exc |-> Raised(conv.exc, 137)]
                      ELSE DisplayLoop(forecast_data, k + 1,
                                       Append(out, ForecastDay(day, conv.n)))

\* a str result is indexed and iterated like the list: its first character is
\* a str, whose only character is the day, and day['date'] raises
display_5_day_forecast ==
    LET f == fetch_5_day_forecast
    IN  IF f.exc # NoExcAt THEN [days |-> <<>>, exc |-> f.exc, log |-> f.log]
        ELSE IF f.ret.t = "str"
        THEN [days |-> <<>>,
              exc |-> IF f.ret.s = <<>> THEN Raised("IndexError", 134)
                      ELSE Raised("TypeError", 135),
              log |-> f.log]
        ELSE IF Len(f.ret.l) = 0
        THEN [days |-> <<>>, exc |-> Raised("IndexError", 134), log |-> f.log]
        ELSE LET r == DisplayLoop(f.ret.l, 1, <<>>)
             IN  [days |-> r.days, exc |-> r.exc, log |-> f.log]

-----------------------------------------------------------------------------
(* The page, lines 147-190 *)

\* dict.get(key, default)
DictGet(d, key, default) == IF key \in DOMAIN d THEN d[key] ELSE default

Field(label, value) == [label |-> label, value |-> value]

\* the handler of line 181
ConversionCatches(e) == e \in {"TypeError", "ValueError"}

\* lines 179-182
weather_symbol_id(weather_data) ==
    LET conv == PyIntConv(DictGet(weather_data, "weather_symbol", PyInt(0)))
    IN  IF conv.exc = NoExc THEN [exc |-> NoExcAt, n |-> conv.n]
        ELSE IF ConversionCatches(conv.exc) THEN [exc |-> NoExcAt, n |-> 0]
        ELSE [exc |-> Raised(conv.exc, 180), n |-> 0]

main ==
    LET nhc == fetch_first_description_from_rss(settings.RSS_FEED_NHC)
        spc == fetch_first_description_from_rss(settings.RSS_FEED_SPC)
        w == fetch_weather_data
        f1 == <<Field("NHC Latest", nhc.ret)>>
        f2 == Append(f1, Field("SPC Alerts", spc.ret))
        f3 == Append(f2, Field("Temperature", DictGet(w.ret.d, "temperature", PyNone)))
        id == weather_symbol_id(w.ret.d)
        symbol == get_weather_symbol_description(id.n)
        f6 == f3 \o <<Field("Weather Symbol", PyStr(<<symbol.icon, " ", symbol.description>>)),
                      Field("Heavy Rain Warning",
                            DictGet(w.ret.d, "heavy_rain_warning", PyNone)),
                      Field("Air Quality (PM2.5)",
                            DictGet(w.ret.d, "air_quality", PyNone))>>
        d == display_5_day_forecast
    IN  IF nhc.exc # NoExcAt
        THEN [fields |-> <<>>, days |-> <<>>, exc |-> nhc.exc, log |-> nhc.log]
        ELSE IF spc.exc # NoExcAt
        THEN [fields |-> f1, days |-> <<>>, exc |-> spc.exc, log |-> nhc.log \o spc.log]
        ELSE IF w.exc # NoExcAt
        THEN [fields |-> f2, days |-> <<>>, exc |-> w.exc,
              log |-> nhc.log \o spc.log \o w.log]
        ELSE IF id.exc # NoExcAt
        THEN [fields |-> f3, days |-> <<>>, exc |-> id.exc,
              log |-> nhc.log \o spc.log \o w.log]
        ELSE [fields |-> f6, days |-> d.days, exc |-> d.exc,
              log |-> nhc.log \o spc.log \o w.log \o d.log]

-----------------------------------------------------------------------------
(* The state machine: a caller runs the functions, in any order, against    *)
(* the upstream of the behaviour.                                          *)

NoCall == [fn |-> "none", arg |-> ""]

InitWith(u) ==
    /\ weather_symbol_map = SymbolTable
    /\ settings = Settings
    /\ upstream = u
    /\ call = NoCall
    /\ ret = PyNone
    /\ exc = NoExcAt
    /\ requests_log = <<>>
    /\ fields = <<>>
    /\ days = <<>>
    /\ repeated = FALSE
    /\ agree = TRUE

Init == \E u \in Upstreams : InitWith(u)

\* what a call leaves behind; no function assigns a module-level name
Returns(fn, arg, r, e, log, fs, ds) ==
    /\ call' = [fn |-> fn, arg |-> arg]
    /\ ret' = r
    /\ exc' = e
    /\ requests_log' = log
    /\ fields' = fs
    /\ days' = ds
    /\ repeated' = (call.fn = fn /\ call.arg = arg)
    /\ agree' = ((call.fn = fn /\ call.arg = arg) => (r = ret /\ e = exc))
    /\ UNCHANGED <<weather_symbol_map, settings, upstream>>

FetchFirstDescriptionFromRss(url) ==
    LET r == fetch_first_description_from_rss(url)
    IN  Returns("fetch_first_description_from_rss", url, r.ret, r.exc, r.log, <<>>, <<>>)

FetchWeatherData ==
    LET r == fetch_weather_data
    IN  Returns("fetch_weather_data", "", r.ret, r.exc, r.log, <<>>, <<>>)

Fetch5DayForecast ==
    LET r == fetch_5_day_forecast
    IN  Returns("fetch_5_day_forecast", "", r.ret, r.exc, r.log, <<>>, <<>>)

Display5DayForecast ==
    LET r == display_5_day_forecast
    IN  Returns("display_5_day_forecast", "", PyNone, r.exc, r.log, <<>>, r.days)

Main ==
    LET r == main
    IN  Returns("main", "", PyNone, r.exc, r.log, r.fields, r.days)

Next ==
    \/ \E url \in {settings.RSS_FEED_NHC, settings.RSS_FEED_SPC} :
          FetchFirstDescriptionFromRss(url)
    \/ FetchWeatherData
    \/ Fetch5DayForecast
    \/ Display5DayForecast
    \/ Main

Spec == Init /\ [][Next]_vars

(* The resolver alone, over every code of the table and codes outside it *)

Codes == (0 - 1)..MaxCode

GetWeatherSymbolDescription(symbol_id) ==
    /\ call' = [fn |-> "get_weather_symbol_description", arg |-> symbol_id]
    /\ ret' = get_weather_symbol_description(symbol_id)
    /\ exc' = NoExcAt
    /\ repeated' = (call.fn = "get_weather_symbol_description" /\ call.arg = symbol_id)
    /\ agree' = (repeated' => ret' = ret)
    /\ UNCHANGED <<weather_symbol_map, settings, upstream, requests_log, fields, days>>

InitResolver ==
    InitWith([feed |-> NominalFeeds, current |-> NominalCurrent,
              forecast |-> NominalForecast])

NextResolver == \E symbol_id \in Codes : GetWeatherSymbolDescription(symbol_id)

SpecResolver == InitResolver /\ [][NextResolver]_vars

-----------------------------------------------------------------------------
(* What the claims speak of *)

\* a request fails: transport error, non-2xx status, body not JSON, or JSON
\* of another shape
RequestFails(o) == o.raises \/ o.status \notin 200..299 \/ ~o.json_ok \/ ~o.has_keys

NonSuccessStatus(o) == ~o.raises /\ o.status \notin 200..299

IsErrorTextFor(x, param) ==
    x.t = "str" /\ Len(x.s) >= 2 /\ x.s[1] = "Error fetching " /\ x.s[2] = param

IsFeedErrorText(x) == x.t = "str" /\ Len(x.s) >= 1 /\ x.s[1] = "Error fetching data: "

FeedParsed(o) == ~o.raises /\ o.wellformed

Least(S) == CHOOSE i \in S : \A j \in S : i <= j

\* C1: fetch_weather_data returns a mapping with exactly the four keys, an
\* error text for each failed parameter and the response's own value for each
\* successful one; it issues all four requests and raises nothing.
C1_PerParameterIsolation ==
    call.fn = "fetch_weather_data" =>
        /\ exc = NoExcAt
        /\ ret.t = "dict"
        /\ DOMAIN ret.d = CurrentParams
        /\ \A p \in CurrentParams :
              IF RequestFails(upstream.current[p])
              THEN IsErrorTextFor(ret.d[p], p)
              ELSE ret.d[p] = upstream.current[p].payload
        /\ Len(requests_log) = 4
        /\ {requests_log[i] : i \in 1..Len(requests_log)} = CurrentParams

C1_Witness ==
    /\ call.fn = "fetch_weather_data"
    /\ ~RequestFails(upstream.current["temperature"])
    /\ upstream.current["weather_symbol"].status = 500
    /\ ~RequestFails(upstream.current["heavy_rain_warning"])
    /\ upstream.current["air_quality"].raises
    /\ ret.d["temperature"] = PyFloat(725)
    /\ IsErrorTextFor(ret.d["weather_symbol"], "weather_symbol")
    /\ ret.d["heavy_rain_warning"] = PyInt(0)

\* C2: fetch_5_day_forecast returns a single error text when either request
\* fails, and the two series, temperature then weather_symbol, when both
\* succeed; never a partial list.
C2_ForecastFailFast ==
    call.fn = "fetch_5_day_forecast" =>
        /\ exc = NoExcAt
        /\ IF \E p \in ForecastParams : RequestFails(upstream.forecast[p])
           THEN \E p \in ForecastParams :
                   RequestFails(upstream.forecast[p]) /\ IsErrorTextFor(ret, p)
           ELSE /\ ret.t = "list"
                /\ ret.l = <<upstream.forecast["temperature"].payload,
                             upstream.forecast["weather_symbol"].payload>>

C2_Witness ==
    /\ call.fn = "fetch_5_day_forecast"
    /\ RequestFails(upstream.forecast["temperature"])
    /\ ~RequestFails(upstream.forecast["weather_symbol"])
    /\ IsErrorTextFor(ret, "temperature")

\* C3: each forecast day rendered at position k takes its date and
\* temperature from the k-th temperature entry and its condition code from
\* the k-th symbol entry, for series of equal length, equal entries included.
C3_PositionalJoin ==
    LET temperatures == upstream.forecast["temperature"].payload
        symbols == upstream.forecast["weather_symbol"].payload
    IN  (/\ call.fn = "display_5_day_forecast"
         /\ \A p \in ForecastParams : ~RequestFails(upstream.forecast[p])
         /\ Len(temperatures) = Len(symbols)
         /\ \A k \in 1..Len(symbols) : PyIntConv(symbols[k].value).exc = NoExc)
        => /\ Len(days) = Len(temperatures)
           /\ \A k \in 1..Len(days) :
                 /\ days[k].date = temperatures[k].date
                 /\ days[k].temperature = temperatures[k].value
                 /\ days[k].symbol_id = PyIntConv(symbols[k].value).n

\* C4: get_weather_symbol_description returns the registered pair for every
\* registered code and ("Unknown symbol", U+2753) for every other integer; it
\* raises nothing and leaves the table as it was.
C4_ResolveTotal ==
    call.fn = "get_weather_symbol_description" =>
        /\ exc = NoExcAt
        /\ IF call.arg \in DOMAIN SymbolTable
           THEN ret = SymbolTable[call.arg]
           ELSE ret = [description |-> "Unknown symbol", icon |-> "U+2753"]
        /\ call.arg = 0 => ret.description = "A weather symbol could not be determined"
        /\ call.arg = 105 => ret = [description |-> "Rain (night)", icon |-> "U+1F327"]
        /\ weather_symbol_map = SymbolTable

C4_Witness ==
    /\ call.fn = "get_weather_symbol_description"
    /\ call.arg = 17
    /\ ret.description = "Unknown symbol"

\* C5: on a parsed feed, fetch_first_description_from_rss returns the text of
\* the description of the first item that has one, and "No description
\* available." when no item has one.
C5_FirstDescription ==
    (call.fn = "fetch_first_description_from_rss" /\ FeedParsed(upstream.feed[call.arg])) =>
        LET items == upstream.feed[call.arg].items
            described == {i \in 1..Len(items) : items[i].has_description}
        IN  /\ exc = NoExcAt
            /\ IF described = {}
               THEN ret = PyStr(<<"No description available.">>)
               ELSE ret = items[Least(described)].text

C5_Witness ==
    /\ call.fn = "fetch_first_description_from_rss"
    /\ FeedParsed(upstream.feed[call.arg])
    /\ Len(upstream.feed[call.arg].items) = 2
    /\ ~upstream.feed[call.arg].items[1].has_description
    /\ upstream.feed[call.arg].items[2].has_description
    /\ ret = PyStr(<<"Tropical storm forming">>)

\* C6: when the request raises or the body is not XML,
\* fetch_first_description_from_rss returns a text beginning with "Error
\* fetching data:"; no call of it raises.
C6_FeedErrorsAsValues ==
    call.fn = "fetch_first_description_from_rss" =>
        /\ exc = NoExcAt
        /\ ~FeedParsed(upstream.feed[call.arg]) => IsFeedErrorText(ret)

C6_Witness ==
    /\ call.fn = "fetch_first_description_from_rss"
    /\ ~upstream.feed[call.arg].raises
    /\ ~upstream.feed[call.arg].wellformed
    /\ ret = PyStr(<<"Error fetching data: ", "ParseError">>)

\* C7: no conversion of a condition code to an integer raises, on the current
\* weather path (line 180) or the forecast path (line 137); a value that
\* cannot be converted is rendered as code 0.
C7_ConversionFallback ==
    /\ call.fn \in {"main", "display_5_day_forecast"} =>
          ~(exc.line \in {137, 180}
            /\ exc.type \in {"TypeError", "ValueError", "OverflowError"})
    /\ (call.fn = "main"
        /\ PyIntConv(fetch_weather_data.ret.d["weather_symbol"]).exc # NoExc) =>
          /\ Len(fields) >= 4
          /\ fields[4].value = PyStr(<<SymbolTable[0].icon, " ", SymbolTable[0].description>>)
    /\ (call.fn = "display_5_day_forecast"
        /\ \A p \in ForecastParams : ~RequestFails(upstream.forecast[p])
        /\ Len(upstream.forecast["temperature"].payload) = 1
        /\ Len(upstream.forecast["weather_symbol"].payload) = 1
        /\ PyIntConv(upstream.forecast["weather_symbol"].payload[1].value).exc # NoExc) =>
          /\ Len(days) = 1
          /\ days[1].symbol_id = 0

C9_RenderCompletes ==
    call.fn = "main" => (exc = NoExcAt /\ Len(fields) = 6)

\* C10: a response with a non-2xx status gives an error text in its slot of
\* the result of each fetch function, never data taken from its body.
C10_NonSuccessStatusIsError ==
    /\ (call.fn = "fetch_first_description_from_rss"
        /\ NonSuccessStatus(upstream.feed[call.arg])) => IsFeedErrorText(ret)
    /\ call.fn = "fetch_weather_data" =>
          \A p \in CurrentParams :
              NonSuccessStatus(upstream.current[p]) => IsErrorTextFor(ret.d[p], p)
    /\ (call.fn = "fetch_5_day_forecast"
        /\ \E p \in ForecastParams : NonSuccessStatus(upstream.forecast[p])) => ret.t = "str"
====
